---------------------------- MODULE Spec2Model ----------------------------
(***************************************************************************)
(* Model of the whisker-barrel script of doc/Tutorials/som_retinotopy.ipynb *)
(* (examples/lissom_whisker_barrels.ty): start-up validation, the MED map,  *)
(* the Whiskers pattern generator (whisker_to_barrel, distribute_angles,    *)
(* function), LinearBoundary and measure_deflection_pref.                   *)
(*                                                                         *)
(* Numbers.  Angles are integers counting steps of 2*pi/AngleSteps (10     *)
(* degrees), so every MED value of a barrel of density 1 or 3 is a whole    *)
(* number of steps.  Real values in [0,1] are integers in 0..Scale.  Sheet  *)
(* coordinates are doubled so that unit centres are integers.  Arrays are   *)
(* sequences of rows; row and column numbers start at 1 where numpy's start *)
(* at 0.                                                                    *)
(***************************************************************************)
EXTENDS Integers, Sequences, FiniteSets, TLC

VARIABLES
    phase,                  \* "init" | "aborted" | "running": position of the script
    Wx, Wy, barrel_density, \* p.Wx, p.Wy, p.barrel_density as given on the command line
    MEDs,                   \* the MED map (<<>> until it is computed)
    random_seed_generator,  \* state of the process-wide seed generator
    calls,                  \* how many times Whiskers.function was called
    measures,               \* how many times measure_deflection_pref was called
    whiskers,               \* the Whiskers instance of Layer_4: [whisker, kappa]
    out,                    \* what the last call of Whiskers.function computed
    meas,                   \* what the last call of measure_deflection_pref did
    views,                  \* names registered in the sheets' views.maps
    rsgB, outB,             \* a second run of the same script (run B)
    probe,                  \* a direct call of whisker_to_barrel or of IntegerMapper
    plastic,                \* whether learning is enabled in the sheets
    weights                 \* per projection, how many learning steps changed its weights

vars == <<phase, Wx, Wy, barrel_density, MEDs, random_seed_generator, calls,
          measures, whiskers, out, meas, views, rsgB, outB, probe, plastic, weights>>

---------------------------------------------------------------------------
(* Bounds of the model *)

MaxW == 2
MaxDensity == 3
MaxCalls == 2
MaxMeasures == 2
MaxProbeW == 2
MaxProbeDensity == 3
MaxProbeValue == 1
MaxCoord == 6

(* 2*pi, in angle steps; 1.0, in response units *)
AngleSteps == 36
Scale == 1000

(* cos of 0, 10, ..., 90 degrees, in units of 1/Scale rounded to an even number *)
CosTable == <<1000, 984, 940, 866, 766, 642, 500, 342, 174, 0>>

Abs(a) == IF a < 0 THEN -a ELSE a
Max(a, b) == IF a >= b THEN a ELSE b

Cos(a) ==
    LET r == a % AngleSteps
        h == AngleSteps \div 2
        q == IF r > h THEN AngleSteps - r ELSE r
    IN  IF 2 * q <= h THEN CosTable[q + 1] ELSE -CosTable[h - q + 1]

Sin(a) == Cos(a - AngleSteps \div 4)

---------------------------------------------------------------------------
(* numpy arrays *)

Rows(A) == Len(A)
Cols(A) == IF Len(A) = 0 THEN 0 ELSE Len(A[1])
Shape(A) == <<Rows(A), Cols(A)>>

Full(r, c, v) == [i \in 1..r |-> [j \in 1..c |-> v]]

RECURSIVE RepeatSeq(_, _)
\* numpy.repeat along one axis: every element n times in a row
RepeatSeq(s, n) ==
    IF s = <<>> THEN <<>>
    ELSE [k \in 1..n |-> Head(s)] \o RepeatSeq(Tail(s), n)

RECURSIVE TileSeq(_, _)
\* numpy.tile along one axis: the whole sequence n times
TileSeq(s, n) == IF n <= 0 THEN <<>> ELSE s \o TileSeq(s, n - 1)

\* numpy.linspace(start=0.0, stop=2.0*pi, num=n, endpoint=False)
Linspace(n) == [k \in 1..n |-> ((k - 1) * AngleSteps) \div n]

\* numpy.reshape(v, [r, c])
Reshape(v, r, c) == [i \in 1..r |-> [j \in 1..c |-> v[(i - 1) * c + j]]]

\* numpy.tile(A, (nr, nc))
Tile(A, nr, nc) == TileSeq([i \in 1..Len(A) |-> TileSeq(A[i], nc)], nr)

\* numpy broadcasting of two 2-D shapes
Broadcastable(A, B) ==
    /\ (Rows(A) = Rows(B) \/ Rows(A) = 1 \/ Rows(B) = 1)
    /\ (Cols(A) = Cols(B) \/ Cols(A) = 1 \/ Cols(B) = 1)

BIdx(A, i, j) ==
    A[IF Rows(A) = 1 THEN 1 ELSE i][IF Cols(A) = 1 THEN 1 ELSE j]

\* A * B, elementwise, for broadcastable A and B
Multiply(A, B) ==
    [i \in 1..Max(Rows(A), Rows(B)) |->
        [j \in 1..Max(Cols(A), Cols(B)) |-> BIdx(A, i, j) * BIdx(B, i, j)]]

\* A Python index into a sequence of length n: -1 is the last element
PyIndexOk(i, n) == -n <= i /\ i < n
PyIndex(i, n) == IF i < 0 THEN i + n ELSE i

\* numpy.fmod(a, b) for b > 0: the remainder has the sign of a
Fmod(a, b) == IF a >= 0 THEN a % b ELSE -((-a) % b)
\* a / b of two Python ints followed by numpy.floor, for b > 0
FloorDiv(a, b) == IF a >= 0 THEN a \div b ELSE -(((-a) + b - 1) \div b)

---------------------------------------------------------------------------
(* numbergen: the seed generator and the von Mises draw *)

\* random_seed_generator=numbergen.UniformRandom(lbound=0,ubound=1000,seed=25)
lbound == 0
ubound == 1000
seed == 25

\* The pseudo-random number generator behind UniformRandom: a finite state
\* machine stepped once per call (here a full-period linear congruence).
RsgModulus == 16
RsgMul == 5
RsgInc == 3

\* The generator before the script has built it
NoGenerator == -1

RsgSeeded(s) == s % RsgModulus
RsgNext(g) == (RsgMul * g + RsgInc) % RsgModulus
\* The number returned by the call that left the generator in state g
RsgValue(g) == lbound + (g * (ubound - lbound)) \div RsgModulus

RECURSIVE RsgPower(_)
\* n calls of the generator, as a function of the state they start in
RsgPower(n) ==
    IF n <= 0 THEN [g \in 0..(RsgModulus - 1) |-> g]
    ELSE LET h == RsgPower(n \div 2)
             hh == [g \in 0..(RsgModulus - 1) |-> h[h[g]]]
         IN  IF n % 2 = 0 THEN hh
             ELSE [g \in 0..(RsgModulus - 1) |-> RsgNext(hh[g])]

AdvanceN(g, n) == RsgPower(n)[g]

\* VonMisesRandom(mu, kappa, seed) cannot be built with a non-positive kappa
VonMisesValid(kappa) == kappa > 0

\* The deviation from the mean of the one sample a VonMisesRandom seeded with s
\* returns: none to speak of for a very large kappa, anywhere on the circle
\* otherwise.
NoiseOffset(s, kappa) == IF kappa >= 1000000 THEN 0 ELSE s % AngleSteps

\* VonMisesRandom(mu=mu, kappa=kappa, seed=s)(): a value in [0, 2*pi)
VonMisesDraw(mu, kappa, s) == (mu + NoiseOffset(s, kappa)) % AngleSteps

---------------------------------------------------------------------------
(* Start-up: the command-line parameters and the MED map *)

\* param.Integer(bounds=(1,None)) for Wx and Wy, bounds=(0,None) for barrel_density
ParamBoundsOk(wx, wy, d) == wx >= 1 /\ wy >= 1 /\ d >= 0

\* assert (p.barrel_density+1)%2==0, "barrel_density must be odd."
AssertOdd(d) == (d + 1) % 2 = 0

StartupDropsAssert(wx, wy, d) == ParamBoundsOk(wx, wy, d)

StartupValid(wx, wy, d) == ParamBoundsOk(wx, wy, d) /\ AssertOdd(d)

MEDMapStretched(wx, wy, d) ==
    LET a == RepeatSeq(Reshape(Linspace(d * d), d, d), wx)
    IN  [i \in 1..Len(a) |-> RepeatSeq(a[i], wy)]

\* MEDs = numpy.tile(numpy.reshape(numpy.linspace(...), [d, d]), (Wx, Wy))
MEDMap(wx, wy, d) == Tile(Reshape(Linspace(d * d), d, d), wx, wy)

---------------------------------------------------------------------------
(* class Whiskers *)

\* The default of Whiskers.kappa, and the kappa of the Layer_4 generator
kappa_default == 10000000
kappa_layer4 == 3

whisker_to_barrel_tiles(pattern, density) ==
    LET a == TileSeq(pattern, density)
    IN  [i \in 1..Len(a) |-> TileSeq(a[i], density)]

\* numpy.repeat(numpy.repeat(pattern,density,0),density,1)
whisker_to_barrel(pattern, density) ==
    LET a == RepeatSeq(pattern, density)
    IN  [i \in 1..Len(a) |-> RepeatSeq(a[i], density)]

SeedArgUnseeded(s, e) == e

\* seed=random_seed_generator(): the new VonMisesRandom is seeded with the number
\* the seed generator returned; nothing else of the environment (e) reaches it.
SeedArg(s, e) == s

\* distribute_angles(original_angles, k), started with the seed generator in
\* state g.  The result: the noisy angles x, the seed generator's new state, the
\* number of times it was advanced and the seeds it returned, in the order of
\* the draws.
distribute_angles(original_angles, k, g, e) ==
    LET r == Rows(original_angles)
        c == Cols(original_angles)
        SeedOf(n) == SeedArg(RsgValue(AdvanceN(g, n)), e)
    IN  IF ~VonMisesValid(k)
        THEN [status |-> "ValueError", x |-> <<>>, rsg |-> RsgNext(g), n |-> 1,
              seeds |-> <<SeedOf(1)>>]
        ELSE IF r * c = 1
        THEN [status |-> "ok",
              x |-> <<<<VonMisesDraw(original_angles[1][1], k, SeedOf(1))>>>>,
              rsg |-> RsgNext(g), n |-> 1, seeds |-> <<SeedOf(1)>>]
        ELSE [status |-> "ok",
              x |-> [i \in 1..r |-> [j \in 1..c |->
                        VonMisesDraw(original_angles[i][j], k, SeedOf((i - 1) * c + j))]],
              rsg |-> AdvanceN(g, r * c), n |-> r * c,
              seeds |-> [n \in 1..(r * c) |-> SeedOf(n)]]

\* LinearBoundary(xdensity=1.0,ydensity=1.0,x=x,y=y,
\*                bounds=BoundingBox(radius=0.5*p.Wx),orientation=o)():
\* one unit per unit square of the box of side w, pattern_x the rotated and
\* shifted x coordinate of each unit (x2, y2 and the unit centres doubled).
LinearBoundary(x2, y2, o, w) ==
    LET offset == 0
        xpt(c) == 2 * c - 1 - w
        ypt(r) == w + 1 - 2 * r
        pattern_x(r, c) == Sin(o) * (ypt(r) - y2) + Cos(o) * (xpt(c) - x2) + offset
    IN  [r \in 1..w |-> [c \in 1..w |-> IF pattern_x(r, c) <= 0 THEN 1 ELSE 0]]

MagnitudesTransposed(w, wx, wy) ==
    LET row == PyIndex(Fmod(w, wx), wx)
        col == PyIndex(FloorDiv(w, wx), wy)
    IN  [i \in 1..wx |-> [j \in 1..wy |->
            IF i = row + 1 /\ j = col + 1 THEN 1 ELSE 0]]

MagnitudesByWx(w, wx, wy) ==
    LET row == PyIndex(FloorDiv(w, wx), wx)
        col == PyIndex(Fmod(w, wx), wy)
    IN  [i \in 1..wx |-> [j \in 1..wy |->
            IF i = row + 1 /\ j = col + 1 THEN 1 ELSE 0]]

\* magnitudes = numpy.zeros([Wx,Wy]);
\* magnitudes[numpy.floor(whisker/Wy)][numpy.fmod(whisker,Wy)]=1.0
Magnitudes(w, wx, wy) ==
    LET row == PyIndex(FloorDiv(w, wy), wx)
        col == PyIndex(Fmod(w, wy), wy)
    IN  [i \in 1..wx |-> [j \in 1..wy |->
            IF i = row + 1 /\ j = col + 1 THEN 1 ELSE 0]]

MagnitudesIndexOk(w, wx, wy) ==
    PyIndexOk(FloorDiv(w, wy), wx) /\ PyIndexOk(Fmod(w, wy), wy)

TuningNotHalved(directions, meds) ==
    [i \in 1..Rows(directions) |-> [j \in 1..Cols(directions) |->
        Scale + Cos(Abs(directions[i][j] - meds[i][j]))]]

TuningSine(directions, meds) ==
    [i \in 1..Rows(directions) |-> [j \in 1..Cols(directions) |->
        (Scale + Sin(Abs(directions[i][j] - meds[i][j]))) \div 2]]

TuningHalfAngle(directions, meds) ==
    [i \in 1..Rows(directions) |-> [j \in 1..Cols(directions) |->
        (Scale + Cos(Abs(directions[i][j] - meds[i][j]) \div 2)) \div 2]]

\* (1.0+(numpy.cos(abs(directions-MEDs))))/2.0
Tuning(directions, meds) ==
    [i \in 1..Rows(directions) |-> [j \in 1..Cols(directions) |->
        (Scale + Cos(Abs(directions[i][j] - meds[i][j]))) \div 2]]

MEDsUsedAsBuffer(directions, meds) ==
    [i \in 1..Rows(meds) |-> [j \in 1..Cols(meds) |->
        Abs(directions[i][j] - meds[i][j])]]

\* abs(directions-MEDs): the difference is a new array, and neither operand is
\* assigned; this is the MED map once the expression has been evaluated.
MEDsAfterResponse(directions, meds) == meds

NoOut ==
    [status |-> "none", mode |-> "none", whisker |-> 0, orientation |-> 0,
     kappa |-> 0, magnitudes |-> <<>>, m |-> <<>>, seeds |-> <<>>, dirs |-> <<>>,
     directions |-> <<>>, response |-> <<>>]

CommandedDirectionsUnscaled(o) == Full(Wx, Wy, 1)

\* numpy.ones([p.Wx*1.0,p.Wy*1.0])*self.orientation
CommandedDirections(o) == Full(Wx, Wy, o)

\* Whiskers.function for the instance self, with orientation o and position
\* (x2, y2)/2, started with the seed generator in state g.
Whiskers_function(self, o, x2, y2, g, e) ==
    LET single == self.whisker < Wx * Wy
        magnitudes == IF single THEN Magnitudes(self.whisker, Wx, Wy)
                      ELSE LinearBoundary(x2, y2, o, Wx)
        m == whisker_to_barrel(magnitudes, barrel_density)
        da == distribute_angles(CommandedDirections(o), self.kappa, g, e)
        directions == whisker_to_barrel(da.x, barrel_density)
        tuning == Tuning(directions, MEDs)
        base == [NoOut EXCEPT !.mode = IF single THEN "single" ELSE "array",
                              !.whisker = self.whisker, !.orientation = o,
                              !.kappa = self.kappa]
    IN  IF single /\ ~MagnitudesIndexOk(self.whisker, Wx, Wy)
        THEN [out |-> [base EXCEPT !.status = "IndexError"], rsg |-> g, n |-> 0,
              meds |-> MEDs]
        ELSE IF da.status # "ok"
        THEN [out |-> [base EXCEPT !.status = da.status, !.magnitudes = magnitudes,
                                   !.m = m, !.seeds = da.seeds],
              rsg |-> da.rsg, n |-> da.n, meds |-> MEDs]
        ELSE IF ~Broadcastable(m, tuning)
        THEN [out |-> [base EXCEPT !.status = "ValueError", !.magnitudes = magnitudes,
                                   !.m = m, !.seeds = da.seeds, !.dirs = da.x,
                                   !.directions = directions],
              rsg |-> da.rsg, n |-> da.n, meds |-> MEDsAfterResponse(directions, MEDs)]
        ELSE [out |-> [base EXCEPT !.status = "ok", !.magnitudes = magnitudes,
                                   !.m = m, !.seeds = da.seeds, !.dirs = da.x,
                                   !.directions = directions,
                                   !.response = Multiply(m, tuning)],
              rsg |-> da.rsg, n |-> da.n, meds |-> MEDsAfterResponse(directions, MEDs)]

---------------------------------------------------------------------------
(* class IntegerMapper *)

\* Sheet coordinates given to a coordinate mapper are floats: here multiples of
\* 1/CoordScale, as integers
CoordScale == 4

Truncate(a) ==
    LET q == Abs(a) \div CoordScale
    IN  (IF a < 0 THEN -q ELSE q) * CoordScale

\* round(a) of Python 2: the nearest whole number as a float, a tie going away
\* from zero
Round(a) ==
    LET q == (2 * Abs(a) + CoordScale) \div (2 * CoordScale)
    IN  (IF a < 0 THEN -q ELSE q) * CoordScale

IntegerMapperTruncates(x, y) == <<Truncate(x), Truncate(y)>>

\* IntegerMapper.__call__(self,x,y): return round(x),round(y)
IntegerMapper(x, y) == <<Round(x), Round(y)>>

---------------------------------------------------------------------------
(* The network: the projections into Layer2_3 *)

Projections == {"Afferent", "LateralExcitatory", "LateralInhibitory"}

LearningRateAllLearn(name) == 1

\* topo.sim.connect(..., name=..., learning_rate=...)
LearningRate(name) ==
    CASE name = "Afferent" -> 1
      [] name = "LateralExcitatory" -> 0
      [] name = "LateralInhibitory" -> 1

\* The weights as topo.sim.connect leaves them: version 0 of every projection
NoLearning == [name \in Projections |-> 0]

\* The weights after a sweep that drove the network: with learning enabled in
\* the sheets, every projection with a positive learning rate has learned from
\* the presentations (a new version of its weights); with learning disabled, or
\* without a presentation, none has.
SweepLearning(w, presentations, learning) ==
    [name \in Projections |->
        IF learning /\ presentations > 0 /\ LearningRate(name) > 0
        THEN w[name] + 1 ELSE w[name]]

---------------------------------------------------------------------------
(* measure_deflection_pref *)

NoMeas ==
    [status |-> "none", num_deflection |-> 0, args |-> <<>>, features |-> <<>>,
     param_dict |-> <<>>, presentations |-> 0, sweep |-> <<>>, subplots |-> "none"]

MeasuredMaps ==
    {"Layer2_3.OrientationPreference", "Layer2_3.OrientationSelectivity",
     "Layer2_3.WhiskerPreference", "Layer2_3.WhiskerSelectivity"}

\* step_deflection=pi/num_deflection
StepDeflection(num_deflection) == (AngleSteps \div 2) \div num_deflection

FeatureValuesFullStep(num_deflection) ==
    << [name |-> "whisker", range |-> <<0, Wx * Wy - 1>>, step |-> 1,
        cyclic |-> FALSE],
       [name |-> "orientation", range |-> <<0, AngleSteps>>,
        step |-> AngleSteps \div num_deflection, cyclic |-> TRUE] >>

\* feature_values=[Feature(name="whisker",...), Feature(name="orientation",...)]
FeatureValues(num_deflection) ==
    << [name |-> "whisker", range |-> <<0, Wx * Wy - 1>>, step |-> 1,
        cyclic |-> FALSE],
       [name |-> "orientation", range |-> <<0, AngleSteps>>,
        step |-> StepDeflection(num_deflection), cyclic |-> TRUE] >>

\* The values a feature sweeps: range[0], range[0]+step, ...; a cyclic feature
\* stops short of range[1], any other includes it.
NumValues(f) ==
    IF f.cyclic THEN (f.range[2] - f.range[1] + f.step - 1) \div f.step
    ELSE (f.range[2] - f.range[1]) \div f.step + 1

\* FeatureMaps(feature_values, pattern_generator=Whiskers(), ...): one
\* presentation of the pattern generator per combination of feature values,
\* each a call of Whiskers.function with the default kappa.
Presentations(features) == NumValues(features[1]) * NumValues(features[2])
SweepDraws(features) == Presentations(features) * Wx * Wy

\* What the presentations of one orientation do to the magnitudes: the sweep
\* sets the generator's whisker to every value of the 'whisker' feature in turn,
\* and Whiskers.function, in its single-whisker branch, builds magnitudes from it.
WhiskerSweep(features) ==
    [k \in 1..NumValues(features[1]) |->
        LET w == features[1].range[1] + (k - 1) * features[1].step
        IN  IF w < Wx * Wy
            THEN IF MagnitudesIndexOk(w, Wx, Wy)
                 THEN [whisker |-> w, mode |-> "single", status |-> "ok",
                       magnitudes |-> Magnitudes(w, Wx, Wy)]
                 ELSE [whisker |-> w, mode |-> "single", status |-> "IndexError",
                       magnitudes |-> <<>>]
            ELSE [whisker |-> w, mode |-> "array", status |-> "ok",
                  magnitudes |-> LinearBoundary(0, 0, 0, Wx)]]

\* The draws a call measure_deflection_pref(num_deflection, ...) takes
MeasureDraws(num_deflection) ==
    IF num_deflection <= 0 THEN 0 ELSE SweepDraws(FeatureValues(num_deflection))

\* The state a call measure_deflection_pref(num_deflection, scale, offset)
\* leaves, where the check of num_deflection comes after the sweep.
measure_checks_late(num_deflection, scale, offset) ==
    LET n == IF num_deflection <= 0 THEN 1 ELSE num_deflection
        features == FeatureValues(n)
    IN  [meas |-> [status |-> IF num_deflection <= 0 THEN "ValueError" ELSE "done",
                   num_deflection |-> num_deflection,
                   args |-> <<scale, offset>>,
                   features |-> features,
                   param_dict |-> <<scale, offset>>,
                   presentations |-> Presentations(features),
                   sweep |-> WhiskerSweep(features),
                   subplots |-> IF num_deflection <= 0 THEN meas.subplots
                                ELSE "Orientation"],
         rsg |-> AdvanceN(random_seed_generator, SweepDraws(features)),
         n |-> SweepDraws(features),
         views |-> views \cup MeasuredMaps,
         weights |-> SweepLearning(weights, Presentations(features), plastic)]

\* The state a call measure_deflection_pref(num_deflection, scale, offset) leaves
measure_deflection_pref(num_deflection, scale, offset) ==
    IF num_deflection <= 0
    THEN \* raise ValueError("num_deflection must be greater than 0")
         [meas |-> [meas EXCEPT !.status = "ValueError",
                                !.num_deflection = num_deflection,
                                !.args = <<scale, offset>>],
          rsg |-> random_seed_generator, n |-> 0, views |-> views,
          weights |-> weights]
    ELSE LET features == FeatureValues(num_deflection)
         IN  [meas |-> [status |-> "done",
                        num_deflection |-> num_deflection,
                        args |-> <<scale, offset>>,
                        features |-> features,
                        param_dict |-> <<scale, offset>>,
                        presentations |-> Presentations(features),
                        sweep |-> WhiskerSweep(features),
                        subplots |-> "Orientation"],
              rsg |-> AdvanceN(random_seed_generator, SweepDraws(features)),
              n |-> SweepDraws(features),
              views |-> views \cup MeasuredMaps,
              weights |-> SweepLearning(weights, Presentations(features), plastic)]

---------------------------------------------------------------------------
(* Inputs *)

\* Values given with -p on the command line
CommandLineW == 0..MaxW
CommandLineDensity == -1..MaxDensity
\* Values given to Whiskers(whisker=..., kappa=...)
Selectors == -1..(Wx * Wy + 1)
Kappas == {-1, kappa_layer4, kappa_default}
\* Orientations, in angle steps (40 is beyond 2*pi); positions (x, y), doubled
Orientations == {0, 13, 40}
Positions == {<<0, 0>>, <<-1, 1>>}
\* What a random generator built without a seed would be seeded with
Entropy == {0, 1}
\* Arguments of measure_deflection_pref (scale in tenths); scale=0.3 is the
\* default, which a plot hook calls it with
NumDeflections == {-3, 0, 1, 2}
DefaultScales == {3}
Scales == {3, 10}
Offsets == {0}

NoWhiskers == [whisker |-> 0, kappa |-> 0, built |-> FALSE]
NoProbe == [pattern |-> <<>>, density |-> 0, result |-> <<>>, called |-> FALSE]
\* Coordinates given to IntegerMapper
Coords == (-MaxCoord)..MaxCoord

---------------------------------------------------------------------------
(* The state machine *)

Init ==
    /\ phase = "init"
    /\ Wx \in CommandLineW
    /\ Wy \in CommandLineW
    /\ barrel_density \in CommandLineDensity
    /\ MEDs = <<>>
    /\ random_seed_generator = NoGenerator
    /\ calls = 0
    /\ measures = 0
    /\ whiskers = NoWhiskers
    /\ out = NoOut
    /\ meas = NoMeas
    /\ views = {}
    /\ rsgB = NoGenerator
    /\ outB = NoOut
    /\ probe = NoProbe
    /\ plastic = TRUE
    /\ weights = NoLearning

\* The script, from p.add(...) to the end: the parameters are validated, then the
\* MED map is computed, the seed generator is built (in run B as well), Layer_4
\* gets its Whiskers generator and the map is registered as the sheet's
\* 'OrientationPreference'.
Startup ==
    /\ phase = "init"
    /\ IF StartupValid(Wx, Wy, barrel_density)
       THEN /\ phase' = "running"
            /\ MEDs' = MEDMap(Wx, Wy, barrel_density)
            /\ random_seed_generator' = RsgSeeded(seed)
            /\ rsgB' = RsgSeeded(seed)
            /\ whiskers' = [whisker |-> Wx * Wy, kappa |-> kappa_layer4,
                            built |-> TRUE]
            /\ views' = {"Layer_4.OrientationPreference"}
       ELSE /\ phase' = "aborted"
            /\ UNCHANGED <<MEDs, random_seed_generator, rsgB, whiskers, views>>
    /\ UNCHANGED <<Wx, Wy, barrel_density, calls, measures, out, meas, outB, probe, plastic, weights>>

\* Whiskers(whisker=w, kappa=k): a generator is built (or its parameters set);
\* neither parameter declares bounds.
NewWhiskers(w, k) ==
    /\ phase = "running"
    /\ whiskers' = [whisker |-> w, kappa |-> k, built |-> TRUE]
    /\ out' = NoOut
    /\ outB' = NoOut
    /\ UNCHANGED <<phase, Wx, Wy, barrel_density, MEDs, random_seed_generator,
                   calls, measures, meas, views, rsgB, probe, plastic, weights>>

\* The simulator asks the generator for a pattern
CallFunction(o, xy, e) ==
    /\ phase = "running"
    /\ calls < MaxCalls
    /\ LET r == Whiskers_function(whiskers, o, xy[1], xy[2], random_seed_generator, e)
       IN  /\ out' = r.out
           /\ random_seed_generator' = r.rsg
           /\ MEDs' = r.meds
           /\ calls' = calls + 1
    /\ UNCHANGED <<phase, Wx, Wy, barrel_density, whiskers, measures, meas,
                   views, rsgB, outB, probe, plastic, weights>>

CallMeasure(n, scale, offset) ==
    /\ phase = "running"
    /\ measures < MaxMeasures
    /\ measures' = measures + 1
    /\ LET r == measure_deflection_pref(n, scale, offset)
       IN  /\ meas' = r.meas
           /\ random_seed_generator' = r.rsg
           /\ views' = r.views
           /\ weights' = r.weights
    /\ UNCHANGED <<phase, Wx, Wy, barrel_density, MEDs, whiskers, out, calls, rsgB,
                   outB, probe, plastic>>

\* The caller enables or disables learning in the sheets
SetPlasticity(b) ==
    /\ phase = "running"
    /\ plastic # b
    /\ plastic' = b
    /\ UNCHANGED <<phase, Wx, Wy, barrel_density, MEDs, random_seed_generator,
                   calls, measures, whiskers, out, meas, views, rsgB, outB, probe,
                   weights>>

\* Run A and run B are asked for the same pattern; each has an environment
\* (clock, entropy pool) of its own.
CallFunctionBoth(o, xy, eA, eB) ==
    /\ phase = "running"
    /\ calls < MaxCalls
    /\ LET a == Whiskers_function(whiskers, o, xy[1], xy[2], random_seed_generator, eA)
           b == Whiskers_function(whiskers, o, xy[1], xy[2], rsgB, eB)
       IN  /\ out' = a.out
           /\ random_seed_generator' = a.rsg
           /\ outB' = b.out
           /\ rsgB' = b.rsg
           /\ MEDs' = a.meds
    /\ calls' = calls + 1
    /\ UNCHANGED <<phase, Wx, Wy, barrel_density, whiskers, measures, meas,
                   views, probe, plastic, weights>>

\* whisker_to_barrel(pattern, density), called directly
CallWhiskerToBarrel ==
    /\ ~probe.called
    /\ probe.density >= 1
    /\ probe' = [probe EXCEPT !.result = whisker_to_barrel(probe.pattern, probe.density),
                              !.called = TRUE]
    /\ UNCHANGED <<phase, Wx, Wy, barrel_density, MEDs, random_seed_generator,
                   calls, measures, whiskers, out, meas, views, rsgB, outB, plastic, weights>>

\* IntegerMapper()(x, y), called directly; a second call is given the result of
\* the first.
CallIntegerMapper ==
    /\ probe.called < 2
    /\ probe' = IF probe.called = 0
                THEN [probe EXCEPT !.result = IntegerMapper(probe.x, probe.y),
                                   !.called = 1]
                ELSE [probe EXCEPT !.again = IntegerMapper(probe.result[1],
                                                           probe.result[2]),
                                   !.called = 2]
    /\ UNCHANGED <<phase, Wx, Wy, barrel_density, MEDs, random_seed_generator,
                   calls, measures, whiskers, out, meas, views, rsgB, outB, plastic,
                   weights>>

Next ==
    \/ Startup
    \/ \E w \in Selectors, k \in Kappas : NewWhiskers(w, k)
    \/ \E o \in Orientations, xy \in Positions, e \in Entropy : CallFunction(o, xy, e)
    \/ \E n \in NumDeflections, s \in Scales, f \in Offsets : CallMeasure(n, s, f)
    \/ \E b \in BOOLEAN : SetPlasticity(b)

Spec == Init /\ [][Next]_vars

\* The simulation loop alone: generators are built and asked for patterns
NextStimulus ==
    \/ Startup
    \/ \E w \in Selectors, k \in Kappas : NewWhiskers(w, k)
    \/ \E o \in Orientations, xy \in Positions, e \in Entropy : CallFunction(o, xy, e)

SpecStimulus == Init /\ [][NextStimulus]_vars

\* Training with the generator of Layer_4, and measurements from the plot hook
NextMeasure ==
    \/ Startup
    \/ \E o \in Orientations, xy \in Positions : CallFunction(o, xy, 0)
    \/ \E n \in NumDeflections, s \in DefaultScales, f \in Offsets :
          CallMeasure(n, s, f)

SpecMeasure == Init /\ [][NextMeasure]_vars

\* Two runs of the script, given the same calls
NextRuns ==
    \/ Startup
    \/ \E w \in Selectors, k \in Kappas : NewWhiskers(w, k)
    \/ \E o \in Orientations, xy \in Positions, eA \in Entropy, eB \in Entropy :
          CallFunctionBoth(o, xy, eA, eB)

SpecRuns == Init /\ [][NextRuns]_vars

\* Measurements, with learning enabled or disabled by the caller
NextWeights ==
    \/ Startup
    \/ \E b \in BOOLEAN : SetPlasticity(b)
    \/ \E n \in NumDeflections, s \in Scales, f \in Offsets : CallMeasure(n, s, f)

SpecWeights == Init /\ [][NextWeights]_vars

\* whisker_to_barrel on its own, for every small grid and density
ProbeGrids ==
    UNION {[1..r -> [1..c -> 0..MaxProbeValue]] :
              r \in 1..MaxProbeW, c \in 1..MaxProbeW}

InitExpand ==
    /\ phase = "init"
    /\ Wx = 1
    /\ Wy = 1
    /\ barrel_density = 1
    /\ MEDs = <<>>
    /\ random_seed_generator = NoGenerator
    /\ calls = 0
    /\ measures = 0
    /\ whiskers = NoWhiskers
    /\ out = NoOut
    /\ meas = NoMeas
    /\ views = {}
    /\ rsgB = NoGenerator
    /\ outB = NoOut
    /\ plastic = TRUE
    /\ weights = NoLearning
    /\ \E G \in ProbeGrids, d \in 1..MaxProbeDensity :
          probe = [pattern |-> G, density |-> d, result |-> <<>>, called |-> FALSE]

NextExpand == CallWhiskerToBarrel

SpecExpand == InitExpand /\ [][NextExpand]_vars

\* IntegerMapper on its own, for every pair of small coordinates
InitMapper ==
    /\ phase = "init"
    /\ Wx = 1
    /\ Wy = 1
    /\ barrel_density = 1
    /\ MEDs = <<>>
    /\ random_seed_generator = NoGenerator
    /\ calls = 0
    /\ measures = 0
    /\ whiskers = NoWhiskers
    /\ out = NoOut
    /\ meas = NoMeas
    /\ views = {}
    /\ rsgB = NoGenerator
    /\ outB = NoOut
    /\ plastic = TRUE
    /\ weights = NoLearning
    /\ \E x \in Coords, y \in Coords :
          probe = [x |-> x, y |-> y, result |-> <<>>, again |-> <<>>, called |-> 0]

NextMapper == CallIntegerMapper

SpecMapper == InitMapper /\ [][NextMapper]_vars

---------------------------------------------------------------------------
(* Properties *)

Cells(A) == {<<i, j>> : i \in 1..Rows(A), j \in 1..Cols(A)}

\* C1: every value of the array Whiskers.function returns is in [0,1] (here
\* 0..Scale), whatever the selector (one whisker or the whole array), the
\* orientation, kappa and the noisy directions drawn.
C1_ResponseInUnitInterval ==
    out.status = "ok" =>
        \A c \in Cells(out.response) :
            /\ 0 <= out.response[c[1]][c[2]]
            /\ out.response[c[1]][c[2]] <= Scale

\* C1 happens: a whole-array response under real noise with a value strictly
\* between 0 and 1.
C1_Witness ==
    /\ out.status = "ok"
    /\ out.mode = "array"
    /\ out.kappa = kappa_layer4
    /\ \E c \in Cells(out.response) :
          0 < out.response[c[1]][c[2]] /\ out.response[c[1]][c[2]] < Scale

\* C2: at every unit whose sampled direction equals the unit's MED the response
\* equals the magnitude m there; and for Wx=Wy=1, barrel_density=1, whisker=0,
\* orientation=0 and negligible noise the one response value is 1.0.
C2_ResponseIsMagnitudeAtMED ==
    out.status = "ok" =>
        /\ \A c \in Cells(out.response) :
              BIdx(out.directions, c[1], c[2]) = BIdx(MEDs, c[1], c[2])
                  => out.response[c[1]][c[2]] = BIdx(out.m, c[1], c[2]) * Scale
        /\ (/\ Wx = 1 /\ Wy = 1 /\ barrel_density = 1
            /\ out.whisker = 0 /\ out.orientation = 0
            /\ out.kappa = kappa_default)
              => out.response = <<<<Scale>>>>

\* C2 happens: the end-to-end example has been computed.
C2_Witness ==
    /\ out.status = "ok"
    /\ Wx = 1 /\ Wy = 1 /\ barrel_density = 1
    /\ out.whisker = 0 /\ out.orientation = 0 /\ out.kappa = kappa_default
    /\ out.directions = MEDs
    /\ out.response = <<<<Scale>>>>

\* C2 happens in a barrel of 3 x 3 units too: a stimulated unit whose noisy
\* direction is its MED.
C2_WitnessDense ==
    /\ out.status = "ok"
    /\ barrel_density = 3
    /\ \E c \in Cells(out.response) :
          /\ BIdx(out.directions, c[1], c[2]) = BIdx(MEDs, c[1], c[2])
          /\ BIdx(out.m, c[1], c[2]) = 1

\* C3: for every selector s with 0 <= s < Wx*Wy, square grid or not, the
\* magnitude field m is 1.0 exactly on the density x density block of the units
\* of whisker (s div Wy, s mod Wy) and 0.0 at every other unit.
C3_SingleWhiskerBlock ==
    (/\ out.mode = "single" /\ out.m # <<>>
     /\ 0 <= out.whisker /\ out.whisker < Wx * Wy) =>
        /\ Shape(out.m) = <<Wx * barrel_density, Wy * barrel_density>>
        /\ \A i \in 0..(Wx * barrel_density - 1), j \in 0..(Wy * barrel_density - 1) :
              out.m[i + 1][j + 1] =
                  IF /\ i \div barrel_density = out.whisker \div Wy
                     /\ j \div barrel_density = out.whisker % Wy
                  THEN 1 ELSE 0

\* C3 happens: one whisker, not the first, of a grid that is not square, with
\* barrels of 3 x 3 units.
C3_Witness ==
    /\ out.status = "ok"
    /\ out.mode = "single"
    /\ Wx # Wy
    /\ barrel_density = 3
    /\ out.whisker = Wx * Wy - 1
    /\ out.whisker > 0

\* C4: whisker_to_barrel(G, density) of a grid G of shape (r,c) has shape
\* (r*density, c*density) and its cell (i,j) is G[i div density, j div density],
\* for every density >= 1 and every G.
C4_BlockReplicationCells ==
    probe.called =>
        /\ Shape(probe.result) =
              <<Rows(probe.pattern) * probe.density, Cols(probe.pattern) * probe.density>>
        /\ \A i \in 0..(Rows(probe.pattern) * probe.density - 1),
              j \in 0..(Cols(probe.pattern) * probe.density - 1) :
              probe.result[i + 1][j + 1] =
                  probe.pattern[(i \div probe.density) + 1][(j \div probe.density) + 1]

\* C4, whole: the cells are as above, and the call changes neither G nor any
\* other state.
C4_BlockReplication ==
    /\ []C4_BlockReplicationCells
    /\ [][/\ probe'.pattern = probe.pattern
          /\ probe'.density = probe.density
          /\ UNCHANGED <<phase, Wx, Wy, barrel_density, MEDs, random_seed_generator,
                         calls, measures, whiskers, out, meas, views, rsgB, outB, plastic, weights>>]_vars

\* C4 happens: a 2 x 2 grid that is not constant, expanded with an even density.
C4_Witness ==
    /\ probe.called
    /\ probe.density = 2
    /\ Shape(probe.pattern) = <<2, 2>>
    /\ probe.pattern[1][1] # probe.pattern[1][2]
    /\ probe.pattern[1][1] # probe.pattern[2][1]
    /\ Shape(probe.result) = <<4, 4>>

\* C5: in whole-array mode (whisker = Wx*Wy) Whiskers.function does not raise and
\* returns an array of the BarrelGrid shape (Wx*barrel_density, Wy*barrel_density),
\* for all Wx, Wy >= 1, also when Wx # Wy.  (A kappa the noise model accepts is
\* assumed: the claim is about the shapes.)
C5_WholeArrayShape ==
    (out.status # "none" /\ out.whisker = Wx * Wy /\ out.kappa > 0) =>
        /\ out.status = "ok"
        /\ Shape(out.response) = <<Wx * barrel_density, Wy * barrel_density>>

\* C6: a selector outside 0..Wx*Wy is rejected when the generator is built, so
\* Wx*Wy is the only value that takes the whole-array branch and no value out of
\* range ever reaches either branch of Whiskers.function.
C6_SelectorValidated ==
    /\ out.mode = "array" => out.whisker = Wx * Wy
    /\ out.mode = "single" => (0 <= out.whisker /\ out.whisker < Wx * Wy)

\* C7: measure_deflection_pref called with num_deflection <= 0 raises its
\* ValueError before it builds a Feature, before FeatureMaps presents anything and
\* before set_subplots; the seed generator and the registered maps are as before.
C7_RejectedBeforeAnyEffect ==
    [][(measures' # measures /\ meas'.num_deflection <= 0) =>
          /\ meas'.status = "ValueError"
          /\ meas'.features = meas.features
          /\ meas'.param_dict = meas.param_dict
          /\ meas'.presentations = meas.presentations
          /\ meas'.subplots = meas.subplots
          /\ random_seed_generator' = random_seed_generator
          /\ views' = views
          /\ UNCHANGED <<MEDs, whiskers, out, calls>>]_vars

\* C7 happens: num_deflection = -3 was rejected after training steps and after a
\* measurement that went through.
C7_Witness ==
    /\ meas.status = "ValueError"
    /\ meas.num_deflection = -3
    /\ meas.features # <<>>
    /\ meas.subplots = "Orientation"
    /\ MeasuredMaps \subseteq views
    /\ calls > 0

\* C7 happens for num_deflection = 0 as well.
C7_WitnessZero == meas.status = "ValueError" /\ meas.num_deflection = 0

PositiveOdd(d) == d >= 1 /\ d % 2 = 1

\* C8: start-up aborts, before the MED map is computed and before any sheet or
\* generator is built, whenever barrel_density is not a positive odd integer or
\* Wx < 1 or Wy < 1; otherwise it proceeds.
C8_StartupValidation ==
    phase # "init" =>
        IF PositiveOdd(barrel_density) /\ Wx >= 1 /\ Wy >= 1
        THEN phase = "running" /\ MEDs # <<>> /\ whiskers.built
        ELSE /\ phase = "aborted"
             /\ MEDs = <<>>
             /\ random_seed_generator = NoGenerator
             /\ ~whiskers.built
             /\ views = {}
             /\ out = NoOut

\* C8 happens: an even barrel_density with a valid grid was turned away.
C8_Witness ==
    /\ phase = "aborted"
    /\ barrel_density = 2
    /\ Wx >= 1 /\ Wy >= 1

\* C9: a kappa <= 0 is rejected when the generator is built or configured, so
\* distribute_angles never runs with kappa <= 0 and no error about the
\* concentration comes up at sample time.
C9_KappaValidated ==
    out.status \notin {"none", "IndexError"} => out.kappa > 0

C11_AdvancedOncePerDraw ==
    [][phase = "running" =>
          IF calls' # calls
          THEN random_seed_generator' = AdvanceN(random_seed_generator, Wx * Wy)
          ELSE random_seed_generator' = random_seed_generator]_vars

\* C12: the MED map depends on (Wx, Wy, barrel_density) alone: its shape is
\* (Wx*d, Wy*d) with d = barrel_density and MED[i,j] is
\* 2*pi*((i mod d)*d + (j mod d))/d^2, so every barrel block holds the same d^2
\* distinct values of [0, 2*pi) in row-major order, at every moment of a run.
C12_MEDClosedForm ==
    phase = "running" =>
        LET d == barrel_density
        IN  /\ Shape(MEDs) = <<Wx * d, Wy * d>>
            /\ \A i \in 0..(Wx * d - 1), j \in 0..(Wy * d - 1) :
                  /\ MEDs[i + 1][j + 1] =
                        (((i % d) * d + (j % d)) * AngleSteps) \div (d * d)
                  /\ 0 <= MEDs[i + 1][j + 1]
                  /\ MEDs[i + 1][j + 1] < AngleSteps
            /\ \A bi \in 0..(Wx - 1), bj \in 0..(Wy - 1) :
                  Cardinality({MEDs[bi * d + a + 1][bj * d + b + 1] :
                                  a \in 0..(d - 1), b \in 0..(d - 1)}) = d * d

\* C12 happens: a grid of two whiskers with barrels of 3 x 3 units, after the
\* generator was used.
C12_Witness ==
    /\ phase = "running"
    /\ barrel_density = 3
    /\ Wx * Wy = 2
    /\ calls > 0
    /\ MEDs[1] # MEDs[2]

\* C13, as claimed: no call of measure_deflection_pref, valid or rejected,
\* changes the weights of the Afferent, LateralExcitatory and LateralInhibitory
\* projections, also when the caller has left learning enabled.
C13_MeasureKeepsWeights ==
    [][measures' # measures => weights' = weights]_vars

\* C13, amended: a call of measure_deflection_pref that is rejected, or that is
\* made while the caller has learning disabled, leaves the weights of all three
\* projections as they were; the weights of LateralExcitatory (learning rate 0)
\* are left as they were by every call.
C13_WeightsKeptWithLearningOff ==
    [][measures' # measures =>
          /\ (meas'.status = "ValueError" \/ ~plastic) => weights' = weights
          /\ weights'["LateralExcitatory"] = weights["LateralExcitatory"]]_vars

\* C13 happens: a sweep went through with learning disabled and no projection
\* has ever learned.
C13_Witness ==
    /\ meas.status = "done"
    /\ meas.presentations > 0
    /\ ~plastic
    /\ weights = NoLearning

\* C13 happens with learning enabled as well: Afferent has learned,
\* LateralExcitatory has not.
C13_WitnessLearning ==
    /\ meas.status = "done"
    /\ weights["Afferent"] > 0
    /\ weights["LateralExcitatory"] = 0

\* C14: IntegerMapper maps (x, y) to two whole numbers, each a nearest whole
\* number to its own coordinate (at most 0.5 away, whichever way a tie goes)
\* whatever the other coordinate is, and mapping the result again gives the
\* same result.
C14_NearestIntegers ==
    /\ probe.called >= 1 =>
          /\ Len(probe.result) = 2
          /\ probe.result[1] % CoordScale = 0
          /\ probe.result[2] % CoordScale = 0
          /\ 2 * Abs(probe.result[1] - probe.x) <= CoordScale
          /\ 2 * Abs(probe.result[2] - probe.y) <= CoordScale
    /\ probe.called = 2 => probe.again = probe.result

\* C14 happens: a tie in x and a negative y that is not whole, mapped twice.
C14_Witness ==
    /\ probe.called = 2
    /\ 2 * Abs(probe.result[1] - probe.x) = CoordScale
    /\ probe.y < 0
    /\ probe.y % CoordScale # 0
    /\ probe.result[1] # probe.result[2]

\* C15: for every num_deflection > 0 measure_deflection_pref sets up exactly two
\* features, 'whisker' over [0, Wx*Wy-1] with step 1, not cyclic, and
\* 'orientation' over [0, 2*pi) with step pi/num_deflection, cyclic, so that the
\* sweep presents Wx*Wy whiskers times 2*num_deflection orientations; scale and
\* offset reach the sweep driver as they were given.
C15_TwoFeaturesSweep ==
    (meas.status = "done" /\ meas.num_deflection > 0) =>
        /\ Len(meas.features) = 2
        /\ meas.features[1] =
              [name |-> "whisker", range |-> <<0, Wx * Wy - 1>>, step |-> 1,
               cyclic |-> FALSE]
        /\ meas.features[2].name = "orientation"
        /\ meas.features[2].range = <<0, AngleSteps>>
        /\ meas.features[2].cyclic
        /\ 2 * meas.num_deflection * meas.features[2].step = AngleSteps
        /\ meas.presentations = Wx * Wy * 2 * meas.num_deflection
        /\ meas.param_dict = meas.args

\* C15 happens: four whiskers swept with num_deflection = 2 and a scale that is
\* not the default: 16 presentations.
C15_Witness ==
    /\ meas.status = "done"
    /\ meas.num_deflection = 2
    /\ Wx * Wy = 4
    /\ meas.presentations = 16
    /\ meas.param_dict = <<10, 0>>

\* C16: the MED map is never changed after it was computed: not by a call of
\* Whiskers.function (with distribute_angles, whisker_to_barrel and
\* LinearBoundary in it), not by measure_deflection_pref, not by a new
\* generator, and it is what was computed from Wx, Wy and barrel_density while
\* it is registered as Layer_4's 'OrientationPreference'.
C16_MEDsImmutable ==
    /\ [][phase = "running" => MEDs' = MEDs]_vars
    /\ []("Layer_4.OrientationPreference" \in views
             => MEDs = MEDMap(Wx, Wy, barrel_density))

\* C16 happens: responses were computed from the map in whole-array mode, a sweep
\* was measured, and the map has more than one value.
C16_Witness ==
    /\ calls = MaxCalls
    /\ out.status = "ok"
    /\ out.response # <<>>
    /\ meas.status = "done"
    /\ barrel_density = 3
    /\ "Layer_4.OrientationPreference" \in views

C18_BlockConstantFields ==
    out.status = "ok" =>
        LET d == barrel_density
        IN  /\ \A c \in Cells(out.m) :
                  out.m[c[1]][c[2]] =
                      out.magnitudes[(c[1] - 1) \div d + 1][(c[2] - 1) \div d + 1]
            /\ Shape(out.dirs) = <<Wx, Wy>>
            /\ Shape(out.directions) = <<Wx * d, Wy * d>>
            /\ \A c \in Cells(out.directions) :
                  out.directions[c[1]][c[2]] =
                      out.dirs[(c[1] - 1) \div d + 1][(c[2] - 1) \div d + 1]
            /\ Len(out.seeds) = Wx * Wy
            /\ \A i \in 1..Wx, j \in 1..Wy :
                  out.dirs[i][j] =
                      VonMisesDraw(out.orientation, out.kappa,
                                   out.seeds[(i - 1) * Wy + j])

\* C18 happens: one whisker of several is stimulated with barrels of 3 x 3
\* units, and the noise gave the whiskers different directions.
C18_Witness ==
    /\ out.status = "ok"
    /\ out.mode = "single"
    /\ barrel_density = 3
    /\ Wx * Wy > 1
    /\ out.orientation = 13
    /\ \E c \in Cells(out.dirs) : out.dirs[c[1]][c[2]] # out.dirs[1][1]

\* C19: the seed of the draw of whisker (i,j) depends on the whisker's index and
\* the base seed alone, not on the order of the calls: in any two calls of
\* Whiskers.function, whatever was drawn before, a whisker gets the same seed.
C19_SeedFixedByIndex ==
    [][(calls' # calls /\ out.seeds # <<>> /\ out'.seeds # <<>>) =>
          \A k \in 1..Len(out'.seeds) :
              k <= Len(out.seeds) => out'.seeds[k] = out.seeds[k]]_vars

\* Whole turns an angle is shifted by
Turns == {-2, -1, 1, 2}

\* The response of one unit with magnitude mag, direction dir and MED med
UnitResponse(mag, dir, med) == mag * Tuning(<<<<dir>>>>, <<<<med>>>>)[1][1]

\* C20, the units: the response of a unit is the same when its sampled direction
\* or its MED is shifted by a whole number of turns (2*pi each), the 0/2*pi
\* boundary included.
C20_UnitsClosedModulo2Pi ==
    out.status = "ok" =>
        \A c \in Cells(out.response), k \in Turns :
            LET mag == BIdx(out.m, c[1], c[2])
                dir == BIdx(out.directions, c[1], c[2])
                med == BIdx(MEDs, c[1], c[2])
            IN  /\ UnitResponse(mag, dir, med) = out.response[c[1]][c[2]]
                /\ UnitResponse(mag, dir + k * AngleSteps, med) = out.response[c[1]][c[2]]
                /\ UnitResponse(mag, dir, med + k * AngleSteps) = out.response[c[1]][c[2]]

\* C20: the response is closed under modulo 2*pi: every unit's response is
\* unchanged by a shift of its direction or its MED by whole turns, and a call of
\* Whiskers.function returns the same response as the same call with the
\* orientation shifted by whole turns.
C20_ClosedModulo2Pi ==
    /\ []C20_UnitsClosedModulo2Pi
    /\ [][(calls' # calls /\ out'.status = "ok") =>
            \E xy \in Positions :
               /\ Whiskers_function(whiskers, out'.orientation, xy[1], xy[2],
                                    random_seed_generator, 0).out = out'
               /\ \A k \in Turns :
                     Whiskers_function(whiskers, out'.orientation + k * AngleSteps,
                                       xy[1], xy[2], random_seed_generator,
                                       0).out.response = out'.response]_vars

\* C20 happens: a response to an orientation beyond 2*pi, with a unit whose
\* direction is below its MED and one whose direction is above its MED.
C20_Witness ==
    /\ out.status = "ok"
    /\ out.orientation >= AngleSteps
    /\ out.kappa = kappa_layer4
    /\ \E c \in Cells(out.response) :
          /\ BIdx(out.directions, c[1], c[2]) < BIdx(MEDs, c[1], c[2])
          /\ out.response[c[1]][c[2]] > 0
    /\ \E c \in Cells(out.response) :
          BIdx(out.directions, c[1], c[2]) > BIdx(MEDs, c[1], c[2])

\* C20 happens at the boundary as well: directions of exactly 0 against MEDs
\* that are not 0.
C20_WitnessBoundary ==
    /\ out.status = "ok"
    /\ out.mode = "array"
    /\ \A c \in Cells(out.directions) : out.directions[c[1]][c[2]] = 0
    /\ \E c \in Cells(out.response) :
          BIdx(MEDs, c[1], c[2]) > 0 /\ out.response[c[1]][c[2]] > 0

\* The whisker cells that a magnitudes array stimulates
Stimulated(magnitudes) ==
    {c \in Cells(magnitudes) : magnitudes[c[1]][c[2]] = 1}

\* C21: s -> (s div Wy, s mod Wy) is a bijection from [0, Wx*Wy) onto the cells
\* of the Wx x Wy grid: in a sweep of the whisker feature over [0, Wx*Wy-1] in
\* unit steps every presentation stimulates the one cell of its selector without
\* indexing outside the grid, two selectors stimulate disjoint barrel blocks,
\* and every whisker is stimulated by exactly one selector.
C21_SelectorBijection ==
    meas.status = "done" =>
        /\ Len(meas.sweep) = Wx * Wy
        /\ \A k \in 1..Len(meas.sweep) :
              /\ meas.sweep[k].whisker = k - 1
              /\ meas.sweep[k].mode = "single"
              /\ meas.sweep[k].status = "ok"
              /\ Shape(meas.sweep[k].magnitudes) = <<Wx, Wy>>
              /\ Stimulated(meas.sweep[k].magnitudes) =
                    {<<((k - 1) \div Wy) + 1, ((k - 1) % Wy) + 1>>}
        /\ \A k \in 1..Len(meas.sweep), l \in 1..Len(meas.sweep) :
              k # l =>
                 Stimulated(whisker_to_barrel(meas.sweep[k].magnitudes, barrel_density))
                   \cap Stimulated(whisker_to_barrel(meas.sweep[l].magnitudes,
                                                     barrel_density)) = {}
        /\ \A i \in 1..Wx, j \in 1..Wy :
              Cardinality({k \in 1..Len(meas.sweep) :
                              meas.sweep[k].magnitudes[i][j] = 1}) = 1

\* C21 happens: a sweep over a grid of two whiskers that is not square, with
\* barrels of 3 x 3 units, has stimulated both.
C21_Witness ==
    /\ meas.status = "done"
    /\ Wx = 1 /\ Wy = 2
    /\ barrel_density = 3
    /\ Len(meas.sweep) = 2
    /\ meas.sweep[2].magnitudes = <<<<0, 1>>>>

\* C21 happens on a square grid of four whiskers as well.
C21_WitnessSquare ==
    /\ meas.status = "done"
    /\ Wx = 2 /\ Wy = 2
    /\ meas.sweep[3].magnitudes = <<<<0, 0>>, <<1, 0>>>>

===========================================================================
